---------------------------- MODULE Spec2Model ----------------------------
(***************************************************************************)
(* wrapcraft: a wrapper around a Minecraft server child process.           *)
(*                                                                         *)
(* Specifications:                                                         *)
(*   Spec          - one running Server instance (src/src/index.ts, class  *)
(*                   Server): the child's stdout/stderr, the readline      *)
(*                   interface, the instance's EventEmitter, the promises  *)
(*                   handed out by when/line/command/stop and `ready`.     *)
(*   SpecPromises  - the same instance without the passthrough of its      *)
(*                   stderr: the promises of when/line/command/stop and    *)
(*                   `ready` against the lines and the exit of the child.  *)
(*   SpecListeners - the same instance with callers that subscribe and     *)
(*                   unsubscribe callbacks with on/each/off.               *)
(*   SpecFactory   - ServerFactoryBuilder / ServerFactory: the setters,    *)
(*                   build() and the command string handed to cp.exec.     *)
(*   SpecBlockData - getBlockData applied to a response line.              *)
(*   SpecCli       - main() of src/bin/wrapcraft.js around one instance:   *)
(*                   the preinit, init and cleanup of the loaded plugins.  *)
(*                                                                         *)
(* Text is modelled as a sequence of pieces (short strings); a line of the *)
(* child's output is a sequence of pieces, and a regular expression is     *)
(* matched piece by piece.                                                 *)
(***************************************************************************)
EXTENDS Integers, Sequences, FiniteSets, TLC

VARIABLES
  proc,        \* the child process: "running" | "dead"
  exitCode,    \* the code the child died with (<<>> while running)
  exitOnce,    \* is the process.once('exit', ...) listener still registered
  stdoutPipe,  \* lines the child wrote to stdout, not yet read by readline
  stderrPipe,  \* lines the child wrote to stderr, not yet read (at most MaxErr)
  outWritten,  \* every line the child ever wrote to stdout, in order
  messages,    \* payloads of events.emit('message', ...), in order
  stopEmits,   \* payloads of events.emit('stop', ...), in order
  events,      \* this.events: channel -> listeners in registration order
  futures,     \* the promises handed out and the callbacks subscribed, by id
               \* (0 is the when() of `ready`)
  nextId,      \* id of the next promise or subscription
  stdin,       \* chunks written with this.process.stdin.write, in order
  stopped,     \* this.stopped
  ready,       \* this.ready: [state, value, calls]
  microtasks,  \* promise continuations queued and not yet run
  ret,         \* outcome of the last call that wrote to the process input
  calls,       \* number of API calls made on the instance
  delivered,   \* ids of the listeners the last emit() called, in call order
  b_file, b_command, b_jarSpec, b_gui, b_maxMemory, b_minMemory, b_args,
               \* the fields of a ServerFactoryBuilder
  factory,     \* the ServerFactory built, <<>> when none
  thrown,      \* the error the last build() threw, "" when none
  execCmd,     \* the last call of cp.exec made by spawn(), <<>> when none
  gb_response, \* getBlockData: the line its `await this.data(...)` came to
  gb_result,   \* getBlockData: what became of the promise it returned
  cli_pc,      \* wrapcraft.js: where main() is
  cli_plugins, \* wrapcraft.js: the array `plugins` after preload
  cli_preinitCalls,  \* plugins whose preinit was invoked, with the argument
  cli_preInitErrors, \* wrapcraft.js: the array preInitErrors
  cli_entryCalls,    \* plugins whose entry point was invoked, with the
                     \* argument and the state of `ready` at the call
  cli_cleanupId      \* per plugin: the id of the `stop` listener init()
                     \* registered for its cleanup, <<>> when none

serverVars == <<proc, exitCode, exitOnce, stdoutPipe, stderrPipe, outWritten, messages, stopEmits, events,
                futures, nextId, stdin, stopped, ready, microtasks, ret, calls,
                delivered>>
factoryVars == <<b_file, b_command, b_jarSpec, b_gui, b_maxMemory,
                 b_minMemory, b_args, factory, thrown, execCmd>>
blockVars == <<gb_response, gb_result>>
cliVars == <<cli_pc, cli_plugins, cli_preinitCalls, cli_preInitErrors,
             cli_entryCalls, cli_cleanupId>>
vars == <<serverVars, factoryVars, blockVars, cliVars>>

---------------------------------------------------------------------------
(* Bounds of the model *)

\* stdout lines the child writes in one run
MaxOut == 2
\* stderr lines the child has written and the instance has not yet read
MaxErr == 1
\* API calls (when/line/command/send/stop) made on the instance in one run
MaxCalls == 2

---------------------------------------------------------------------------
(* Text and regular expressions *)

\* Pieces of output text.  "Done (" and "s)! For help, type \"help\"" are the
\* literal parts of the ready pattern; the others stand for other text.
DoneOpen == "Done ("
DoneClose == "s)! For help, type \"help\""

\* The lines the child may print.
OpText == "op sigmasoldier"
ChatLine == <<"<player> ", OpText>>
DoneLine == <<DoneOpen, "3.2", DoneClose>>
Lines == {ChatLine, DoneLine}
\* The lines the child may print on stderr: the one that would matter most
\* if it reached the `message` channel.
ErrLines == {DoneLine}

\* A regular expression of the shape  pre  or  pre.+?post  (unanchored).
NoPattern == [pre |-> <<>>, gap |-> FALSE, post |-> <<>>]
\* /Done \(.+?s\)! For help, type "help"/
ReadyPattern == [pre |-> <<DoneOpen>>, gap |-> TRUE, post |-> <<DoneClose>>]
\* a pattern a caller may wait for: /op sigmasoldier/
OpPattern == [pre |-> <<OpText>>, gap |-> FALSE, post |-> <<>>]
Patterns == {ReadyPattern, OpPattern}

\* Does the literal `lit` occur in `text` starting at position i
LitAt(lit, text, i) ==
  /\ i >= 1
  /\ i + Len(lit) - 1 <= Len(text)
  /\ \A k \in 1..Len(lit) : text[i + k - 1] = lit[k]

\* The positions just after a match of `pat` that starts at position i.
\* `.+?` consumes at least one piece.
MatchEnds(pat, text, i) ==
  IF ~LitAt(pat.pre, text, i) THEN {}
  ELSE IF ~pat.gap THEN {i + Len(pat.pre)}
  ELSE {j + Len(pat.post) : j \in {j \in (i + Len(pat.pre) + 1)..(Len(text) + 1) :
                                     LitAt(pat.post, text, j)}}

Min(S) == CHOOSE x \in S : \A y \in S : x <= y

\* String.prototype.match(regexp) without the g flag: <<>> for null, else
\* <<m>> with the leftmost match, its lazy quantifier as short as possible.
StringMatch(text, pat) ==
  LET starts == {i \in 1..Len(text) : MatchEnds(pat, text, i) # {}}
  IN IF starts = {} THEN <<>>
     ELSE LET i == Min(starts)
              e == Min(MatchEnds(pat, text, i))
          IN <<[index |-> i, text |-> SubSeq(text, i, e - 1), input |-> text]>>

---------------------------------------------------------------------------
(* The EventEmitter and the promises *)

Channels == {"message", "stop", "ready"}

Listener(id, kind, pat) == [id |-> id, kind |-> kind, pat |-> pat]

\* A promise handed out by the instance.  kind: the call that made it
\* ("when", "line", "command", "stop"); born/bornStops: how many `message`
\* and `stop` emissions had happened when it was created.
NewFuture(kind, pat) ==
  [kind |-> kind, pat |-> pat, state |-> "pending", value |-> <<>>,
   calls |-> 0, born |-> Len(messages), bornStops |-> Len(stopEmits),
   off |-> <<>>, during |-> 0]

\* EventEmitter.on: append to the channel's list
EmitterOn(ev, ch, l) == [ev EXCEPT ![ch] = Append(@, l)]

\* EventEmitter.off / removeListener: drop the listener from the channel
EmitterOff(ev, ch, l) ==
  [ev EXCEPT ![ch] = SelectSeq(@, LAMBDA x : x # l)]

\* Calling a promise's resolve function: only the first call settles it.
Resolve(fut, id, v) ==
  [fut EXCEPT ![id] = [@ EXCEPT !.calls = @ + 1,
                                !.state = "resolved",
                                !.value = IF fut[id].state = "pending"
                                          THEN <<v>> ELSE @]]

\* The state an emission works on: the listeners, the promises and the
\* queued continuations.
EmitState(ev, fut, mt) == [ev |-> ev, fut |-> fut, mt |-> mt, order |-> <<>>]

\* Settling promise 0 (the when() awaited by the async executor of `ready`)
\* queues that executor's continuation.
Settle(st, id, v) ==
  [st EXCEPT !.fut = Resolve(st.fut, id, v),
             !.mt = IF id = 0 /\ st.fut[id].state = "pending"
                    THEN Append(@, "readyResume") ELSE @]

\* Variant of WhenListener that resolves on a match and stays subscribed.
WhenListener_noOff(l, payload, st) ==
  LET match == StringMatch(payload, l.pat)
  IN IF match # <<>> THEN Settle(st, l.id, match[1]) ELSE st

\* Variant of WhenListener that unsubscribes at the first line, matching or
\* not.
WhenListener_offBeforeMatch(l, payload, st) ==
  LET match == StringMatch(payload, l.pat)
      off == [st EXCEPT !.ev = EmitterOff(st.ev, "message", l)]
  IN IF match # <<>> THEN Settle(off, l.id, match[1]) ELSE off

\* Variant of WhenListener without the test of the match: it resolves and
\* unsubscribes at the first line.
WhenListener_anyLine(l, payload, st) ==
  LET match == StringMatch(payload, l.pat)
  IN [Settle(st, l.id, match) EXCEPT !.ev = EmitterOff(st.ev, "message", l)]

\* The listener of when(): on a match, resolve and unsubscribe.
WhenListener(l, payload, st) ==
  LET match == StringMatch(payload, l.pat)
  IN IF match # <<>>
     THEN [Settle(st, l.id, match[1]) EXCEPT
             !.ev = EmitterOff(st.ev, "message", l)]
     ELSE st

\* Variant of OnceListener registered with events.on: it calls r and stays
\* subscribed.
OnceListener_staysSubscribed(l, ch, payload, st) == Settle(st, l.id, payload)

\* A listener registered with events.once(ch, r): the wrapper unsubscribes
\* itself, then calls r with the payload.
OnceListener(l, ch, payload, st) ==
  [Settle(st, l.id, payload) EXCEPT !.ev = EmitterOff(st.ev, ch, l)]

\* Calling the callback a caller subscribed with on() or each(): `calls`
\* counts its invocations, `value` is the argument of the last one.
Invoke(st, id, v) ==
  [st EXCEPT !.fut = [@ EXCEPT ![id] = [@ EXCEPT !.calls = @ + 1,
                                                 !.value = <<v>>]]]

\* Variant of EachListener that unsubscribes once it has matched.
EachListener_once(l, payload, st) ==
  LET match == StringMatch(payload, l.pat)
  IN IF match # <<>>
     THEN [Invoke(st, l.id, match[1]) EXCEPT
             !.ev = EmitterOff(st.ev, "message", l)]
     ELSE st

\* The arrow function each() subscribes: on a match, call the callback.
EachListener(l, payload, st) ==
  LET match == StringMatch(payload, l.pat)
  IN IF match # <<>> THEN Invoke(st, l.id, match[1]) ELSE st

\* A function subscribed with on(): called with the payload.
OnListener(l, payload, st) == Invoke(st, l.id, payload)

\* The listener init() of wrapcraft.js registers with events.once('stop',
\* () => plugin.cleanup(server)): the once wrapper unsubscribes itself, then
\* cleanup is called with the server.
CleanupListener(l, ch, payload, st) ==
  [Invoke(st, l.id, "server") EXCEPT !.ev = EmitterOff(st.ev, ch, l)]

\* A handler subscribed with on('message', ...) that calls this.line():
\* the promise of line() and its once listener are made while the emission
\* is being delivered.  `during` (and `born`) is the number of the emission
\* in flight.
OnLineListener(l, payload, st) ==
  LET inv == Invoke(st, l.id, payload)
      id == Cardinality(DOMAIN inv.fut)
      k == Len(messages) + 1
  IN [inv EXCEPT
        !.fut = @ @@ (id :> [NewFuture("line", NoPattern) EXCEPT
                               !.born = k, !.during = k]),
        !.ev = EmitterOn(@, "message", Listener(id, "once", NoPattern))]

CallListener(l, ch, payload, st) ==
  CASE l.kind = "when" -> WhenListener(l, payload, st)
    [] l.kind = "onLine" -> OnLineListener(l, payload, st)
    [] l.kind = "cleanup" -> CleanupListener(l, ch, payload, st)
    [] l.kind = "once" -> OnceListener(l, ch, payload, st)
    [] l.kind = "each" -> EachListener(l, payload, st)
    [] l.kind = "on" -> OnListener(l, payload, st)
    [] OTHER -> st

\* EventEmitter.emit: call, in registration order, every listener that was
\* registered when the emission started.
RECURSIVE EmitFrom(_, _, _, _, _)
EmitFrom(snapshot, i, ch, payload, st) ==
  IF i > Len(snapshot) THEN st
  ELSE EmitFrom(snapshot, i + 1, ch, payload,
                CallListener(snapshot[i], ch, payload,
                             [st EXCEPT !.order = Append(@, snapshot[i].id)]))

\* Variant of Emit that walks the channel's list itself instead of a copy
\* taken when the emission starts.
RECURSIVE EmitLiveFrom(_, _, _, _)
EmitLiveFrom(i, ch, payload, st) ==
  IF i > Len(st.ev[ch]) THEN st
  ELSE EmitLiveFrom(i + 1, ch, payload,
                    CallListener(st.ev[ch][i], ch, payload,
                                 [st EXCEPT !.order = Append(@, st.ev[ch][i].id)]))

Emit_liveList(ch, payload, st) == EmitLiveFrom(1, ch, payload, st)

Emit(ch, payload, st) == EmitFrom(st.ev[ch], 1, ch, payload, st)

---------------------------------------------------------------------------
(* The child process *)

ExitCodes == {"0", "1", "null"}

\* the child prints a line on stdout
ChildWriteStdout(l) ==
  /\ proc = "running"
  /\ Len(outWritten) < MaxOut
  /\ stdoutPipe' = Append(stdoutPipe, l)
  /\ outWritten' = Append(outWritten, l)
  /\ UNCHANGED <<proc, exitCode, exitOnce, stderrPipe,
                 messages, stopEmits, events, futures, nextId, stdin,
                 stopped, ready, microtasks, ret, calls,
                 factoryVars, blockVars, cliVars, delivered>>

\* the child prints a line on stderr
ChildWriteStderr(l) ==
  /\ proc = "running"
  /\ Len(stderrPipe) < MaxErr
  /\ stderrPipe' = Append(stderrPipe, l)
  /\ UNCHANGED <<proc, exitCode, exitOnce, stdoutPipe, outWritten,
                 messages, stopEmits, events, futures, nextId, stdin,
                 stopped, ready, microtasks, ret, calls,
                 factoryVars, blockVars, cliVars, delivered>>

\* the child terminates: with a code, or by a signal (code null)
ChildExit(code) ==
  /\ proc = "running"
  /\ proc' = "dead"
  /\ exitCode' = <<code>>
  /\ UNCHANGED <<exitOnce, stdoutPipe, stderrPipe, outWritten,
                 messages, stopEmits, events, futures,
                 nextId, stdin, stopped, ready, microtasks, ret, calls,
                 factoryVars, blockVars, cliVars, delivered>>

---------------------------------------------------------------------------
(* The handlers the constructor installs *)

\* Variant of ReaderLine whose reader also takes the lines of stderr.
ReaderLine_alsoStderr ==
  /\ microtasks = <<>>
  /\ \/ /\ stdoutPipe # <<>>
        /\ stdoutPipe' = Tail(stdoutPipe)
        /\ UNCHANGED stderrPipe
     \/ /\ stderrPipe # <<>>
        /\ stderrPipe' = Tail(stderrPipe)
        /\ UNCHANGED stdoutPipe
  /\ LET line == IF stdoutPipe' # stdoutPipe THEN Head(stdoutPipe)
                 ELSE Head(stderrPipe)
         st == Emit("message", line, EmitState(events, futures, microtasks))
     IN /\ messages' = Append(messages, line)
        /\ events' = st.ev
        /\ futures' = st.fut
        /\ microtasks' = st.mt
        /\ nextId' = Cardinality(DOMAIN st.fut)
        /\ delivered' = st.order
  /\ UNCHANGED <<proc, exitCode, exitOnce, outWritten, stopEmits,
                 stdin, stopped, ready, ret, calls, factoryVars, blockVars, cliVars>>

\* this.reader.on('line', line => this.events.emit('message', line)); the
\* reader's input is process.stdout.
ReaderLine ==
  /\ stdoutPipe # <<>>
  /\ microtasks = <<>>
  /\ LET line == Head(stdoutPipe)
         st == Emit("message", line, EmitState(events, futures, microtasks))
     IN /\ stdoutPipe' = Tail(stdoutPipe)
        /\ messages' = Append(messages, line)
        /\ events' = st.ev
        /\ futures' = st.fut
        /\ microtasks' = st.mt
        /\ nextId' = Cardinality(DOMAIN st.fut)
        /\ delivered' = st.order
  /\ UNCHANGED <<proc, exitCode, exitOnce, stderrPipe, outWritten,
                 stopEmits, stdin, stopped, ready,
                 ret, calls,
                 factoryVars, blockVars, cliVars>>

\* process.stderr.on('data', data => global.process.stderr.write(...)),
\* installed when the constructor gets stderr = true (the builder's default):
\* the chunk goes to the host's stderr and nowhere else.
StderrData ==
  /\ stderrPipe # <<>>
  /\ microtasks = <<>>
  /\ stderrPipe' = Tail(stderrPipe)
  /\ UNCHANGED <<proc, exitCode, exitOnce, stdoutPipe, outWritten,
                 messages, stopEmits, events, futures, nextId, stdin,
                 stopped, ready, microtasks, ret, calls,
                 factoryVars, blockVars, cliVars, delivered>>

\* Variant of ProcessExit whose handler stays registered and runs again at
\* the child's next termination event (as with 'exit' and 'close').
ProcessExit_staysRegistered ==
  /\ proc = "dead"
  /\ exitOnce
  /\ microtasks = <<>>
  /\ LET code == exitCode[1]
         st == Emit("stop", code, EmitState(events, futures, microtasks))
     IN /\ stopEmits' = Append(stopEmits, code)
        /\ events' = st.ev
        /\ futures' = st.fut
        /\ microtasks' = st.mt
        /\ nextId' = Cardinality(DOMAIN st.fut)
        /\ delivered' = st.order
  /\ UNCHANGED <<proc, exitCode, exitOnce, stdoutPipe, stderrPipe, outWritten, messages, stdin, stopped, ready, ret,
                 calls, factoryVars, blockVars, cliVars>>

\* Variant of ProcessExit that also rejects every promise still pending when
\* the child terminates.
ProcessExit_rejectsPending ==
  /\ proc = "dead"
  /\ exitOnce
  /\ microtasks = <<>>
  /\ LET code == exitCode[1]
         st == Emit("stop", code, EmitState(events, futures, microtasks))
     IN /\ exitOnce' = FALSE
        /\ stopEmits' = Append(stopEmits, code)
        /\ events' = st.ev
        /\ futures' = [id \in DOMAIN st.fut |->
                         IF st.fut[id].state = "pending"
                         THEN [st.fut[id] EXCEPT !.state = "rejected"]
                         ELSE st.fut[id]]
        /\ microtasks' = st.mt
        /\ nextId' = Cardinality(DOMAIN st.fut)
        /\ delivered' = st.order
  /\ UNCHANGED <<proc, exitCode, stdoutPipe, stderrPipe, outWritten,
                 messages, stdin, stopped, ready,
                 ret, calls,
                 factoryVars, blockVars, cliVars>>

\* process.once('exit', code => this.events.emit('stop', code))
ProcessExit ==
  /\ proc = "dead"
  /\ exitOnce
  /\ microtasks = <<>>
  /\ LET code == exitCode[1]
         st == Emit("stop", code, EmitState(events, futures, microtasks))
     IN /\ exitOnce' = FALSE
        /\ stopEmits' = Append(stopEmits, code)
        /\ events' = st.ev
        /\ futures' = st.fut
        /\ microtasks' = st.mt
        /\ nextId' = Cardinality(DOMAIN st.fut)
        /\ delivered' = st.order
  /\ UNCHANGED <<proc, exitCode, stdoutPipe, stderrPipe, outWritten,
                 messages, stdin, stopped, ready,
                 ret, calls,
                 factoryVars, blockVars, cliVars>>

\* Variant of ReadyResume that also announces readiness on the `ready`
\* channel.
ReadyResume_emitsReady ==
  /\ microtasks # <<>>
  /\ Head(microtasks) = "readyResume"
  /\ ready' = [state |-> "resolved",
               value |-> IF ready.state = "pending" THEN <<"this">> ELSE ready.value,
               calls |-> ready.calls + 1]
  /\ LET st == Emit("ready", "this", EmitState(events, futures, Tail(microtasks)))
     IN /\ events' = st.ev
        /\ futures' = st.fut
        /\ microtasks' = st.mt
        /\ nextId' = Cardinality(DOMAIN st.fut)
        /\ delivered' = st.order
  /\ UNCHANGED <<proc, exitCode, exitOnce, stdoutPipe, stderrPipe, outWritten, messages, stopEmits,
                 stdin, stopped, ret, calls,
                 factoryVars, blockVars, cliVars>>

\* the rest of the executor of `ready`, after its await:  r(this)
ReadyResume ==
  /\ microtasks # <<>>
  /\ Head(microtasks) = "readyResume"
  /\ microtasks' = Tail(microtasks)
  /\ ready' = [state |-> "resolved",
               value |-> IF ready.state = "pending" THEN <<"this">> ELSE ready.value,
               calls |-> ready.calls + 1]
  /\ UNCHANGED <<proc, exitCode, exitOnce, stdoutPipe, stderrPipe, outWritten, messages, stopEmits, events,
                 futures, nextId, stdin, stopped, ret, calls,
                 factoryVars, blockVars, cliVars, delivered>>

---------------------------------------------------------------------------
(* The API of a Server instance *)

\* texts a caller sends
Texts == {"A"}

\* this.process.stdin.write(message + '\n')
StdinWrite(in, message) == Append(in, <<message, "\n">>)

\* What a call that wrote to the process input came to: it returned (the
\* code has no path on which send throws).  afterStop: had `stop` fired.
Returned == [called |-> TRUE, threw |-> FALSE, afterStop |-> stopEmits # <<>>]

\* Variant of when() over a replay buffer: a line emitted before the call
\* that matches resolves the promise at once.
when_replay(matcher) ==
  /\ calls < MaxCalls
  /\ calls' = calls + 1
  /\ LET past == {i \in 1..Len(messages) : StringMatch(messages[i], matcher) # <<>>}
     IN IF past = {}
        THEN /\ futures' = futures @@ (nextId :> NewFuture("when", matcher))
             /\ events' = EmitterOn(events, "message", Listener(nextId, "when", matcher))
        ELSE /\ futures' = futures @@
                   (nextId :> [NewFuture("when", matcher) EXCEPT
                                 !.state = "resolved",
                                 !.calls = 1,
                                 !.value = StringMatch(messages[Min(past)], matcher)])
             /\ UNCHANGED events
  /\ nextId' = nextId + 1
  /\ UNCHANGED <<proc, exitCode, exitOnce, stdoutPipe, stderrPipe, outWritten, messages, stopEmits, stdin,
                 stopped, ready, microtasks, ret,
                 factoryVars, blockVars, cliVars, delivered>>

\* when(matcher): a new promise whose listener is subscribed to `message`
when(matcher) ==
  /\ calls < MaxCalls
  /\ calls' = calls + 1
  /\ futures' = futures @@ (nextId :> NewFuture("when", matcher))
  /\ events' = EmitterOn(events, "message", Listener(nextId, "when", matcher))
  /\ nextId' = nextId + 1
  /\ UNCHANGED <<proc, exitCode, exitOnce, stdoutPipe, stderrPipe, outWritten, messages, stopEmits, stdin,
                 stopped, ready, microtasks, ret,
                 factoryVars, blockVars, cliVars, delivered>>

\* send(message)
send(message) ==
  /\ calls < MaxCalls
  /\ calls' = calls + 1
  /\ stdin' = StdinWrite(stdin, message)
  /\ ret' = Returned
  /\ UNCHANGED <<proc, exitCode, exitOnce, stdoutPipe, stderrPipe, outWritten, messages, stopEmits, events,
                 futures, nextId, stopped, ready, microtasks,
                 factoryVars, blockVars, cliVars, delivered>>

\* line(): a new promise resolved by events.once('message', r)
line ==
  /\ calls < MaxCalls
  /\ calls' = calls + 1
  /\ futures' = futures @@ (nextId :> NewFuture("line", NoPattern))
  /\ events' = EmitterOn(events, "message", Listener(nextId, "once", NoPattern))
  /\ nextId' = nextId + 1
  /\ UNCHANGED <<proc, exitCode, exitOnce, stdoutPipe, stderrPipe, outWritten, messages, stopEmits, stdin,
                 stopped, ready, microtasks, ret,
                 factoryVars, blockVars, cliVars, delivered>>

\* Variant of command() that writes at once and subscribes in a later turn
\* of the event loop.
command_subscribesLater(text) ==
  /\ calls < MaxCalls
  /\ calls' = calls + 1
  /\ stdin' = StdinWrite(stdin, text)
  /\ ret' = Returned
  /\ futures' = futures @@ (nextId :> NewFuture("command", NoPattern))
  /\ nextId' = nextId + 1
  /\ UNCHANGED <<proc, exitCode, exitOnce, stdoutPipe, stderrPipe, outWritten, messages, stopEmits, stopped,
                 events, ready, microtasks,
                 factoryVars, blockVars, cliVars, delivered>>

\* command(command): this.send(command); return this.line()
command(text) ==
  /\ calls < MaxCalls
  /\ calls' = calls + 1
  /\ stdin' = StdinWrite(stdin, text)
  /\ ret' = Returned
  /\ futures' = futures @@ (nextId :> NewFuture("command", NoPattern))
  /\ events' = EmitterOn(events, "message", Listener(nextId, "once", NoPattern))
  /\ nextId' = nextId + 1
  /\ UNCHANGED <<proc, exitCode, exitOnce, stdoutPipe, stderrPipe, outWritten, messages, stopEmits, stopped,
                 ready, microtasks,
                 factoryVars, blockVars, cliVars, delivered>>

\* Variant of stop() that waits for the next output line as an
\* acknowledgement instead of the `stop` event.
stop_awaitsLine ==
  /\ calls < MaxCalls
  /\ calls' = calls + 1
  /\ futures' = futures @@ (nextId :> NewFuture("stop", NoPattern))
  /\ events' = EmitterOn(events, "message", Listener(nextId, "once", NoPattern))
  /\ nextId' = nextId + 1
  /\ stdin' = StdinWrite(stdin, "stop")
  /\ ret' = Returned
  /\ UNCHANGED <<proc, exitCode, exitOnce, stdoutPipe, stderrPipe, outWritten, messages, stopEmits, stopped, ready, microtasks,
                 factoryVars, blockVars, cliVars, delivered>>

\* Variant of stop() that resolves at once when `stop` was already emitted.
stop_checksExited ==
  /\ calls < MaxCalls
  /\ calls' = calls + 1
  /\ IF stopEmits = <<>>
     THEN /\ futures' = futures @@ (nextId :> NewFuture("stop", NoPattern))
          /\ events' = EmitterOn(events, "stop", Listener(nextId, "once", NoPattern))
     ELSE /\ futures' = futures @@
                (nextId :> [NewFuture("stop", NoPattern) EXCEPT
                              !.state = "resolved", !.calls = 1,
                              !.value = <<stopEmits[1]>>])
          /\ UNCHANGED events
  /\ nextId' = nextId + 1
  /\ stdin' = StdinWrite(stdin, "stop")
  /\ ret' = Returned
  /\ UNCHANGED <<proc, exitCode, exitOnce, stdoutPipe, stderrPipe, outWritten, messages, stopEmits, stopped,
                 ready, microtasks,
                 factoryVars, blockVars, cliVars, delivered>>

\* stop(): this.events.once('stop', r); this.send('stop')
stop ==
  /\ calls < MaxCalls
  /\ calls' = calls + 1
  /\ futures' = futures @@ (nextId :> NewFuture("stop", NoPattern))
  /\ events' = EmitterOn(events, "stop", Listener(nextId, "once", NoPattern))
  /\ nextId' = nextId + 1
  /\ stdin' = StdinWrite(stdin, "stop")
  /\ ret' = Returned
  /\ UNCHANGED <<proc, exitCode, exitOnce, stdoutPipe, stderrPipe, outWritten, messages, stopEmits, stopped,
                 ready, microtasks,
                 factoryVars, blockVars, cliVars, delivered>>

\* channels and patterns a caller subscribes to
OnChannels == {"message", "ready"}
EachPatterns == {OpPattern}

\* on(event, handler): this.events.on(event, handler)
on(event) ==
  /\ calls < MaxCalls
  /\ calls' = calls + 1
  /\ futures' = futures @@ (nextId :> NewFuture("on", NoPattern))
  /\ events' = EmitterOn(events, event, Listener(nextId, "on", NoPattern))
  /\ nextId' = nextId + 1
  /\ UNCHANGED <<proc, exitCode, exitOnce, stdoutPipe, stderrPipe, outWritten, messages, stopEmits, stdin,
                 stopped, ready, microtasks, ret,
                 factoryVars, blockVars, cliVars, delivered>>

\* on('message', () => this.line()): a handler that calls line() whenever
\* it is invoked
onCallingLine ==
  /\ calls < MaxCalls
  /\ calls' = calls + 1
  /\ futures' = futures @@ (nextId :> NewFuture("onLine", NoPattern))
  /\ events' = EmitterOn(events, "message", Listener(nextId, "onLine", NoPattern))
  /\ nextId' = nextId + 1
  /\ UNCHANGED <<proc, exitCode, exitOnce, stdoutPipe, stderrPipe, outWritten, messages, stopEmits, stdin,
                 stopped, ready, microtasks, ret,
                 factoryVars, blockVars, cliVars, delivered>>

\* each(matcher, listener): this.on('message', line => ...).  The function
\* subscribed is the arrow function made in each(), not `listener`.
each(matcher) ==
  /\ calls < MaxCalls
  /\ calls' = calls + 1
  /\ futures' = futures @@ (nextId :> NewFuture("each", matcher))
  /\ events' = EmitterOn(events, "message", Listener(nextId, "each", matcher))
  /\ nextId' = nextId + 1
  /\ UNCHANGED <<proc, exitCode, exitOnce, stdoutPipe, stderrPipe, outWritten, messages, stopEmits, stdin,
                 stopped, ready, microtasks, ret,
                 factoryVars, blockVars, cliVars, delivered>>

\* The function a caller holds for subscription id: the handler given to
\* on(), or the callback given to each().
Handler(id) ==
  IF futures[id].kind = "on" THEN Listener(id, "on", NoPattern)
  ELSE Listener(id, "callback", futures[id].pat)

\* off(event, handler), with the function of an earlier on() or each():
\* this.events.off(event, handler).  `off` keeps the number of invocations
\* the function had at the first off on the channel it was given to.
off(event, id) ==
  /\ calls < MaxCalls
  /\ calls' = calls + 1
  /\ futures[id].kind \in {"on", "each"}
  /\ events' = EmitterOff(events, event, Handler(id))
  /\ futures' = [futures EXCEPT ![id].off =
                   IF /\ @ = <<>>
                      /\ \/ futures[id].kind = "each" /\ event = "message"
                         \/ \E i \in 1..Len(events[event]) :
                              events[event][i] = Handler(id)
                   THEN <<futures[id].calls>> ELSE @]
  /\ UNCHANGED <<proc, exitCode, exitOnce, stdoutPipe, stderrPipe, outWritten, messages, stopEmits, stdin,
                 nextId, stopped, ready, microtasks, ret,
                 factoryVars, blockVars, cliVars, delivered>>

---------------------------------------------------------------------------
(* getBlockData: what it makes of the response line *)

\* pieces in a response line
MaxRespLen == 4

\* Pieces of a response to `data get block`: free text, the braces, a
\* property that reads the same in JavaScript (x: -221) and one in the
\* server's notation that is no JavaScript (Slot: 0b).
TextPiece == "has the following block data: "
GoodProp == "x: -221"
BadProp == "Slot: 0b"
BlockPieces == {TextPiece, "{", "}", GoodProp, BadProp}

RECURSIVE SeqsUpTo(_, _)
SeqsUpTo(S, n) ==
  IF n = 0 THEN {<<>>}
  ELSE LET shorter == SeqsUpTo(S, n - 1)
       IN shorter \cup {Append(q, x) : q \in {r \in shorter : Len(r) = n - 1}, x \in S}

Responses == SeqsUpTo(BlockPieces, MaxRespLen) \ {<<>>}

\* response.match(/^.+?({.+?})$/): <<>> for null, else <<group 1>>.  The
\* lazy prefix stops before the first "{" that has a character before it;
\* the group runs from there to the "}" that ends the line and holds at
\* least one character between the braces.
BlockMatch(response) ==
  LET n == Len(response)
      opens == {i \in 2..(n - 2) : response[i] = "{"}
  IN IF opens = {} \/ response[n] # "}" THEN <<>>
     ELSE <<SubSeq(response, Min(opens), n)>>

\* eval(`(${group})`): of the texts made of these pieces, only the braces
\* around one JavaScript property are an expression; every other one is a
\* SyntaxError.
EvalThrows(group) == ~(Len(group) = 3 /\ group[2] = GoodProp)

\* The outcome of the promise of getBlockData for a response line
getBlockDataResult(response) ==
  LET match == BlockMatch(response)
  IN IF match = <<>> THEN [kind |-> "null", value |-> <<>>]
     ELSE IF EvalThrows(match[1])
          THEN [kind |-> "rejected", value |-> <<"SyntaxError">>]
          ELSE [kind |-> "value",
                value |-> SubSeq(match[1], 2, Len(match[1]) - 1)]

\* getBlockData, from the moment its await of data() resumes with the line
getBlockData ==
  /\ gb_result.kind = "pending"
  /\ gb_result' = getBlockDataResult(gb_response)
  /\ UNCHANGED <<gb_response, serverVars, factoryVars, cliVars>>

BlockInit ==
  /\ gb_response \in Responses
  /\ gb_result = [kind |-> "pending", value |-> <<>>]

NextBlockData == getBlockData

---------------------------------------------------------------------------
(* bin/wrapcraft.js: main() around one Server *)

\* plugins loaded in one run
MaxPlugins == 2

\* A loaded plugin: a function; has it a preinit function, has it a cleanup
\* function, does calling it throw.
PluginKinds == [preinit : BOOLEAN, cleanup : BOOLEAN, throws : BOOLEAN]
PluginLists == SeqsUpTo(PluginKinds, MaxPlugins)

\* The identifiers bound where the body of preinit(plugins) is evaluated:
\* the declarations of the module, and its parameter and loop variable.
\* (`server` is a `let` of main(), and a parameter of init.)
ModuleScope ==
  {"Server", "fs", "chalk", "args", "jarfile", "dirs", "warnIfEmpty",
   "getFullPath", "loadPlugin", "getName", "preload", "preInitErrors",
   "preinit", "init", "main"}
PreinitScope == ModuleScope \cup {"plugins", "plugin", "error"}

\* The loop of preinit(plugins) from plugin i on.  Evaluating the argument
\* `server` throws ReferenceError where the identifier is not bound; the
\* catch pushes the error.
RECURSIVE PreinitFrom(_, _)
PreinitFrom(i, st) ==
  IF i > Len(cli_plugins) THEN st
  ELSE PreinitFrom(i + 1,
         IF ~cli_plugins[i].preinit THEN st
         ELSE IF "server" \in PreinitScope
              THEN [st EXCEPT !.calls =
                      Append(@, [plugin |-> i, arg |-> "server",
                                 ready |-> ready.state])]
              ELSE [st EXCEPT !.errors =
                      Append(@, [plugin |-> i, error |-> "ReferenceError"])])

\* main() from `preinit(plugins)` to `await server.ready`
Cli_preinit ==
  /\ cli_pc = "spawned"
  /\ LET st == PreinitFrom(1, [calls |-> cli_preinitCalls,
                               errors |-> cli_preInitErrors])
     IN /\ cli_preinitCalls' = st.calls
        /\ cli_preInitErrors' = st.errors
  /\ cli_pc' = "awaitReady"
  /\ UNCHANGED <<cli_plugins, cli_entryCalls, cli_cleanupId,
                 serverVars, factoryVars, blockVars>>

\* server.tell(...): command(`tellraw ...`), that is send and line()
Tell(st) ==
  [st EXCEPT !.in = StdinWrite(@, "tellraw"),
             !.fut = @ @@ (st.next :> NewFuture("command", NoPattern)),
             !.ev = EmitterOn(@, "message", Listener(st.next, "once", NoPattern)),
             !.next = @ + 1,
             !.told = TRUE]

\* One turn of the first loop of init(plugins, server)
InitPlugin(i, st) ==
  LET called == [st EXCEPT !.entry =
                   Append(@, [plugin |-> i, arg |-> "server",
                              ready |-> ready.state])]
  IN IF cli_plugins[i].throws THEN Tell(called)
     ELSE IF cli_plugins[i].cleanup
          THEN [called EXCEPT
                  !.fut = @ @@ (called.next :> NewFuture("cleanup", NoPattern)),
                  !.ev = EmitterOn(@, "stop",
                                   Listener(called.next, "cleanup", NoPattern)),
                  !.cid = [@ EXCEPT ![i] = <<called.next>>],
                  !.next = @ + 1]
          ELSE called

RECURSIVE InitFrom(_, _)
InitFrom(i, st) ==
  IF i > Len(cli_plugins) THEN st
  ELSE InitFrom(i + 1, InitPlugin(i, st))

\* The second loop of init: one tell per entry of preInitErrors
RECURSIVE ReportFrom(_, _)
ReportFrom(k, st) ==
  IF k > Len(cli_preInitErrors) THEN st
  ELSE ReportFrom(k + 1, Tell(st))

\* main() after `await server.ready`: init(plugins, server)
Cli_init ==
  /\ cli_pc = "awaitReady"
  /\ ready.state = "resolved"
  /\ microtasks = <<>>
  /\ LET st == ReportFrom(1, InitFrom(1,
                  [ev |-> events, fut |-> futures, next |-> nextId,
                   in |-> stdin, entry |-> cli_entryCalls,
                   cid |-> cli_cleanupId, told |-> FALSE]))
     IN /\ events' = st.ev
        /\ futures' = st.fut
        /\ nextId' = st.next
        /\ stdin' = st.in
        /\ cli_entryCalls' = st.entry
        /\ cli_cleanupId' = st.cid
        /\ ret' = IF st.told THEN Returned ELSE ret
  /\ cli_preInitErrors' = <<>>
  /\ cli_pc' = "done"
  /\ UNCHANGED <<proc, exitCode, exitOnce, stdoutPipe, stderrPipe, outWritten,
                 messages, stopEmits, stopped, ready, microtasks, calls,
                 delivered,
                 cli_plugins, cli_preinitCalls, factoryVars, blockVars>>

\* main() is running, or its continuation is queued: no event handler runs
\* before it reaches its await.
MainRunning ==
  \/ cli_pc = "spawned"
  \/ cli_pc = "awaitReady" /\ ready.state = "resolved"

Cli_ReaderLine == ~MainRunning /\ ReaderLine
Cli_ProcessExit == ~MainRunning /\ ProcessExit

CliInit ==
  /\ cli_pc = "spawned"
  /\ cli_plugins \in PluginLists
  /\ cli_preinitCalls = <<>>
  /\ cli_preInitErrors = <<>>
  /\ cli_entryCalls = <<>>
  /\ cli_cleanupId = [i \in 1..Len(cli_plugins) |-> <<>>]

NextCli ==
  \/ \E l \in Lines : ChildWriteStdout(l)
  \/ \E code \in ExitCodes : ChildExit(code)
  \/ Cli_ReaderLine
  \/ Cli_ProcessExit
  \/ ReadyResume
  \/ Cli_preinit
  \/ Cli_init

---------------------------------------------------------------------------
(* ServerFactoryBuilder and ServerFactory *)

\* arguments added with arg() in one run
MaxArgs == 1
\* A string is a sequence of pieces; a path has "/" pieces.
Files == {<<"server.jar">>, <<"srv", "/", "server.jar">>}
Commands == {<<"java">>, <<"java8">>}
ExtraArgs == {<<"--port">>}
MaxMemoryArgs == {<<1024, "M">>, <<2, "G">>}
MinMemoryArgs == {<<512, "M">>}

Digits == <<"0", "1", "2", "3", "4", "5", "6", "7", "8", "9">>

\* Number.prototype.toString for a natural number
RECURSIVE NumberToString(_)
NumberToString(n) ==
  IF n < 10 THEN <<Digits[n + 1]>>
  ELSE NumberToString(n \div 10) \o <<Digits[(n % 10) + 1]>>

\* Array.prototype.join on an array of strings
RECURSIVE Join(_, _)
Join(strs, sep) ==
  IF strs = <<>> THEN <<>>
  ELSE IF Len(strs) = 1 THEN strs[1]
  ELSE strs[1] \o sep \o Join(Tail(strs), sep)

\* An element of ServerFactory.args: a string, or an array of strings.
StrArg(str) == [isArray |-> FALSE, str |-> str, items |-> <<>>]
ArrayArg(items) == [isArray |-> TRUE, str |-> <<>>, items |-> items]

\* The string conversion join() applies to an element: an array becomes its
\* elements joined by ","
ArgToString(a) == IF a.isArray THEN Join(a.items, <<",">>) ELSE a.str

\* [value, unit].join('')
MemoryString(m) == NumberToString(m[1]) \o <<m[2]>>

\* The array `extra` of build()
BuildExtra ==
  (IF ~b_gui THEN <<<<"nogui">>>> ELSE <<>>)
  \o (IF b_maxMemory # <<>> THEN <<<<"-Xmx">> \o MemoryString(b_maxMemory)>> ELSE <<>>)
  \o (IF b_minMemory # <<>> THEN <<<<"-Xms">> \o MemoryString(b_minMemory)>> ELSE <<>>)

\* [extra, ...this._args]
BuildArgs == <<ArrayArg(BuildExtra)>> \o [i \in 1..Len(b_args) |-> StrArg(b_args[i])]

\* ServerFactory.buildCommandString
buildCommandString(f) ==
  f.command \o <<" ">> \o f.jarSpec \o <<" ">> \o f.file \o <<" ">>
  \o Join([i \in 1..Len(f.args) |-> ArgToString(f.args[i])], <<" ">>)

\* path.dirname
Dirname(path) ==
  LET slashes == {i \in 1..Len(path) : path[i] = "/"}
  IN IF slashes = {} THEN <<".">>
     ELSE SubSeq(path, 1, (CHOOSE i \in slashes : \A j \in slashes : j <= i) - 1)

FactoryInit ==
  /\ b_file = <<>>
  /\ b_command = <<"java">>
  /\ b_jarSpec = <<"-jar">>
  /\ b_gui = FALSE
  /\ b_maxMemory = <<>>
  /\ b_minMemory = <<>>
  /\ b_args = <<>>
  /\ factory = <<>>
  /\ thrown = ""
  /\ execCmd = <<>>

Builder_file(f) ==
  /\ b_file' = f
  /\ UNCHANGED <<b_command, b_jarSpec, b_gui, b_maxMemory, b_minMemory, b_args,
                 factory, thrown, execCmd, serverVars, blockVars, cliVars>>

Builder_command(c) ==
  /\ b_command' = c
  /\ UNCHANGED <<b_file, b_jarSpec, b_gui, b_maxMemory, b_minMemory, b_args,
                 factory, thrown, execCmd, serverVars, blockVars, cliVars>>

Builder_arg(a) ==
  /\ Len(b_args) < MaxArgs
  /\ b_args' = Append(b_args, a)
  /\ UNCHANGED <<b_file, b_command, b_jarSpec, b_gui, b_maxMemory, b_minMemory,
                 factory, thrown, execCmd, serverVars, blockVars, cliVars>>

Builder_gui(enabled) ==
  /\ b_gui' = enabled
  /\ UNCHANGED <<b_file, b_command, b_jarSpec, b_maxMemory, b_minMemory, b_args,
                 factory, thrown, execCmd, serverVars, blockVars, cliVars>>

Builder_maxMemory(value, unit) ==
  /\ b_maxMemory' = <<value, unit>>
  /\ UNCHANGED <<b_file, b_command, b_jarSpec, b_gui, b_minMemory, b_args,
                 factory, thrown, execCmd, serverVars, blockVars, cliVars>>

Builder_minMemory(value, unit) ==
  /\ b_minMemory' = <<value, unit>>
  /\ UNCHANGED <<b_file, b_command, b_jarSpec, b_gui, b_maxMemory, b_args,
                 factory, thrown, execCmd, serverVars, blockVars, cliVars>>

\* build() without the check of `_file`
Builder_build_noFileCheck ==
  /\ factory' = <<[file |-> b_file, command |-> b_command,
                   jarSpec |-> b_jarSpec, args |-> BuildArgs]>>
  /\ thrown' = ""
  /\ UNCHANGED <<b_file, b_command, b_jarSpec, b_gui, b_maxMemory, b_minMemory,
                 b_args, execCmd, serverVars, blockVars, cliVars>>

\* build(): throws without a file, else a ServerFactory
Builder_build ==
  /\ IF b_file = <<>>
     THEN /\ thrown' = "ServerFactoryError"
          /\ UNCHANGED factory
     ELSE /\ factory' = <<[file |-> b_file, command |-> b_command,
                           jarSpec |-> b_jarSpec, args |-> BuildArgs]>>
          /\ thrown' = ""
  /\ UNCHANGED <<b_file, b_command, b_jarSpec, b_gui, b_maxMemory, b_minMemory,
                 b_args, execCmd, serverVars, blockVars, cliVars>>

\* What cp.exec does with the command: the shell is started; or it cannot be
\* started (no such cwd, no permission, no process slot), which the child
\* object reports later through its 'error' event; or the call itself throws.
LaunchOutcomes == {"launched", "error event", "throws"}

\* ServerFactory.spawn(): new Server(cp.exec(this.buildCommandString(),
\* { cwd }), ...). `result` is what the caller of spawn() gets.
Factory_spawn ==
  /\ factory # <<>>
  /\ \E launch \in LaunchOutcomes :
       execCmd' = <<[cmd |-> buildCommandString(factory[1]),
                     cwd |-> Dirname(factory[1].file),
                     factory |-> factory[1],
                     launch |-> launch,
                     result |-> IF launch = "throws" THEN "throws" ELSE "Server"]>>
  /\ UNCHANGED <<b_file, b_command, b_jarSpec, b_gui, b_maxMemory, b_minMemory,
                 b_args, factory, thrown, serverVars, blockVars, cliVars>>

NextFactory ==
  \/ \E f \in Files : Builder_file(f)
  \/ \E c \in Commands : Builder_command(c)
  \/ \E a \in ExtraArgs : Builder_arg(a)
  \/ \E e \in BOOLEAN : Builder_gui(e)
  \/ \E m \in MaxMemoryArgs : Builder_maxMemory(m[1], m[2])
  \/ \E m \in MinMemoryArgs : Builder_minMemory(m[1], m[2])
  \/ Builder_build
  \/ Factory_spawn

---------------------------------------------------------------------------
(* One running Server *)

\* The instance as its constructor leaves it: the executor of `ready` has
\* run up to its await, so the listener of its when() is subscribed.
ServerInit ==
  /\ proc = "running"
  /\ exitCode = <<>>
  /\ exitOnce = TRUE
  /\ stdoutPipe = <<>>
  /\ stderrPipe = <<>>
  /\ outWritten = <<>>
  /\ messages = <<>>
  /\ stopEmits = <<>>
  /\ events = [ch \in Channels |->
                 IF ch = "message" THEN <<Listener(0, "when", ReadyPattern)>>
                 ELSE <<>>]
  /\ futures = (0 :> [kind |-> "when", pat |-> ReadyPattern, state |-> "pending",
                      value |-> <<>>, calls |-> 0, born |-> 0, bornStops |-> 0,
                      off |-> <<>>, during |-> 0])
  /\ nextId = 1
  /\ delivered = <<>>
  /\ stdin = <<>>
  /\ stopped = FALSE
  /\ ready = [state |-> "pending", value |-> <<>>, calls |-> 0]
  /\ microtasks = <<>>
  /\ ret = [called |-> FALSE, threw |-> FALSE, afterStop |-> FALSE]
  /\ calls = 0

\* No getBlockData call and no wrapcraft.js around the instance
BlockIdle ==
  /\ gb_response = <<>>
  /\ gb_result = [kind |-> "none", value |-> <<>>]

CliIdle ==
  /\ cli_pc = "none"
  /\ cli_plugins = <<>>
  /\ cli_preinitCalls = <<>>
  /\ cli_preInitErrors = <<>>
  /\ cli_entryCalls = <<>>
  /\ cli_cleanupId = <<>>

Init == ServerInit /\ FactoryInit /\ BlockIdle /\ CliIdle

Next ==
  \/ \E l \in Lines : ChildWriteStdout(l)
  \/ \E l \in ErrLines : ChildWriteStderr(l)
  \/ \E code \in ExitCodes : ChildExit(code)
  \/ ReaderLine
  \/ StderrData
  \/ ProcessExit
  \/ ReadyResume
  \/ \E p \in Patterns : when(p)
  \/ \E t \in Texts : send(t)
  \/ line
  \/ \E t \in Texts : command(t)
  \/ stop

\* The instance and its callers without the passthrough of stderr, which
\* shares no state with the emitter and the promises
NextPromises ==
  \/ \E l \in Lines : ChildWriteStdout(l)
  \/ \E code \in ExitCodes : ChildExit(code)
  \/ ReaderLine
  \/ ProcessExit
  \/ ReadyResume
  \/ \E p \in Patterns : when(p)
  \/ \E t \in Texts : send(t)
  \/ line
  \/ \E t \in Texts : command(t)
  \/ stop

\* A Server whose callers subscribe and unsubscribe callbacks, next to
\* promises of when() and line()
NextListeners ==
  \/ \E l \in Lines : ChildWriteStdout(l)
  \/ \E code \in ExitCodes : ChildExit(code)
  \/ ReaderLine
  \/ ProcessExit
  \/ ReadyResume
  \/ \E p \in Patterns : when(p)
  \/ \E ch \in OnChannels : on(ch)
  \/ \E p \in EachPatterns : each(p)
  \/ \E ch \in OnChannels, id \in DOMAIN futures : off(ch, id)
  \/ onCallingLine

Spec == Init /\ [][Next]_vars

SpecPromises == Init /\ [][NextPromises]_vars

SpecFactory == Init /\ [][NextFactory]_vars

SpecListeners == Init /\ [][NextListeners]_vars

InitCli == ServerInit /\ FactoryInit /\ BlockIdle /\ CliInit

SpecCli == InitCli /\ [][NextCli]_vars

InitBlockData == ServerInit /\ FactoryInit /\ CliIdle /\ BlockInit

SpecBlockData == InitBlockData /\ [][NextBlockData]_vars

---------------------------------------------------------------------------
(* Properties of one running Server (specification Spec) *)

FutureIds == DOMAIN futures
Registered(ch, id) == \E i \in 1..Len(events[ch]) : events[ch][i].id = id

\* C1: the `message` channel carries exactly the lines the child wrote to
\* stdout, one emission per line and in the order written; what the child
\* wrote to stderr is never emitted on it.
C1_MessagesAreStdoutLinesInOrder ==
  /\ messages \o stdoutPipe = outWritten
  /\ Len(messages) <= Len(outWritten)

\* C1 witness: two different stdout lines were emitted while a stderr line
\* that reads like the ready line was written.
C1_Witness ==
  /\ Len(messages) = 2
  /\ messages[1] # messages[2]
  /\ stderrPipe # <<>>

\* C2 (as claimed): of two command() calls made with no `message` emission
\* between them, the first resolves with the first later line and the
\* second with the second later line.
C2_FifoCommandCorrelation ==
  \A a, b \in FutureIds :
    ( /\ a < b
      /\ futures[a].kind = "command"
      /\ futures[b].kind = "command"
      /\ futures[a].born = futures[b].born
      /\ Len(messages) >= futures[a].born + 2 )
    => /\ futures[a].value = <<messages[futures[a].born + 1]>>
       /\ futures[b].value = <<messages[futures[b].born + 2]>>

\* Does the text contain pat.pre, followed when pat.gap by at least one
\* piece and then pat.post
Contains(text, pat) ==
  \E i \in 1..Len(text) :
    /\ LitAt(pat.pre, text, i)
    /\ pat.gap => \E j \in (i + Len(pat.pre) + 1)..Len(text) : LitAt(pat.post, text, j)

\* The `message` emissions after promise id was made that match its pattern
MatchesAfter(id) ==
  {i \in (futures[id].born + 1)..Len(messages) :
     Contains(messages[i], futures[id].pat)}

\* C3: every when() promise has its resolve function called at most once;
\* it is resolved exactly when a matching line was emitted after the call,
\* with the match of the first such line; and its listener is registered
\* exactly while it is pending.
C3_WhenResolvesOnceWithFirstMatch ==
  \A id \in FutureIds :
    futures[id].kind = "when" =>
      LET after == MatchesAfter(id)
      IN /\ futures[id].calls <= 1
         /\ (futures[id].state = "resolved") = (after # {})
         /\ futures[id].state = "resolved" =>
              futures[id].value =
                StringMatch(messages[Min(after)], futures[id].pat)
         /\ Registered("message", id) = (futures[id].state = "pending")

\* C3 witness: two when() calls on the same pattern, both resolved once,
\* after two matching lines.
C3_Witness ==
  \E a, b \in FutureIds :
    /\ 0 < a /\ a < b
    /\ futures[a].kind = "when" /\ futures[b].kind = "when"
    /\ futures[a].pat = futures[b].pat
    /\ futures[a].calls = 1 /\ futures[b].calls = 1
    /\ Cardinality(MatchesAfter(a)) = 2
    /\ Cardinality(MatchesAfter(b)) = 2

\* A line that reads  ...Done (<elapsed>s)! For help, type "help"...  with a
\* non-empty <elapsed>
IsReadyLine(l) ==
  \E i, j \in 1..Len(l) : l[i] = DoneOpen /\ l[j] = DoneClose /\ j > i + 1

ReadyLinesEmitted == {i \in 1..Len(messages) : IsReadyLine(messages[i])}

\* C4: `ready` is resolved at most once, with the instance; once the ready
\* line was seen the listener of its when() is gone and the resolve function
\* of that when() was called once, however many ready lines follow.
C4_ReadyResolvesOnce ==
  /\ ready.calls <= 1
  /\ futures[0].calls <= 1
  /\ ready.state = "resolved" =>
       /\ ready.value = <<"this">>
       /\ ready.calls = 1
       /\ ~Registered("message", 0)

\* C4 witness: the ready line was emitted twice and `ready` is resolved.
C4_Witness ==
  /\ Cardinality(ReadyLinesEmitted) = 2
  /\ ready.state = "resolved"

\* C5: `ready` (and the when() it awaits) stays pending while no emitted line
\* matches the ready pattern; the when() resolves at the first matching line,
\* and `ready` as soon as the continuation queued by it has run.
C5_ReadyOnlyAfterReadyLine ==
  LET seen == ReadyLinesEmitted
  IN /\ (ready.state = "resolved" \/ futures[0].state = "resolved"
           \/ microtasks # <<>>) => seen # {}
     /\ seen # {} =>
          /\ futures[0].state = "resolved"
          /\ futures[0].value[1].input = messages[Min(seen)]
          /\ microtasks = <<>> => ready.state = "resolved"

\* C5 witness: a line that is not the ready line, then the ready line, and
\* `ready` resolved.
C5_Witness ==
  /\ Len(messages) = 2
  /\ ~IsReadyLine(messages[1])
  /\ IsReadyLine(messages[2])
  /\ ready.state = "resolved"

\* C6 (as claimed): once `stop` has fired, the stopped flag is true.
C6_StoppedAfterStopEvent == stopEmits # <<>> => stopped

\* C7 (as claimed): after `stop` has fired no call that writes to the
\* process input returns normally, and no command() promise is handed out.
C7_CallsFailAfterStop ==
  /\ (ret.called /\ ret.afterStop) => ret.threw
  /\ \A id \in FutureIds :
       futures[id].kind = "command" => futures[id].bornStops = 0

\* C8: `stop` is emitted at most once, never while the child is running, and
\* carries the child's exit code; it has been emitted once the exit handler
\* has run.
C8_StopEmittedOnceWithExitCode ==
  /\ Len(stopEmits) <= 1
  /\ proc = "running" => stopEmits = <<>>
  /\ stopEmits # <<>> => stopEmits = exitCode
  /\ (proc = "dead" /\ ~exitOnce) => Len(stopEmits) = 1

\* C8 witness: the child was killed by a signal and `stop` was emitted with
\* the null code.
C8_Witness == stopEmits = <<"null">>

StopFutures == {id \in FutureIds : futures[id].kind = "stop"}

\* C9: a stop() promise is resolved exactly when `stop` was emitted after the
\* call, with that emission's code, whatever lines were emitted meanwhile;
\* and every stop() call wrote the line `stop` to the process input.
C9_StopWaitsForStopEvent ==
  /\ \A id \in StopFutures :
       /\ (futures[id].state = "resolved") = (Len(stopEmits) > futures[id].bornStops)
       /\ futures[id].state = "resolved" =>
            futures[id].value = <<stopEmits[futures[id].bornStops + 1]>>
  /\ Cardinality({i \in 1..Len(stdin) : stdin[i] = <<"stop", "\n">>})
       = Cardinality(StopFutures)

\* C9 witness: a stop() promise still pending after a line was emitted, and
\* one resolved by the exit.
C9_Witness ==
  \E a, b \in StopFutures :
    /\ futures[a].state = "resolved" /\ futures[a].born < Len(messages)
    /\ futures[b].state = "pending"

---------------------------------------------------------------------------
(* Properties of the factory (specification SpecFactory) *)

\* The words a shell splits a command string into: maximal runs of pieces
\* other than " "
RECURSIVE ShellWordsFrom(_, _, _)
ShellWordsFrom(str, word, acc) ==
  IF str = <<>> THEN (IF word = <<>> THEN acc ELSE Append(acc, word))
  ELSE IF Head(str) = " "
       THEN ShellWordsFrom(Tail(str), <<>>, IF word = <<>> THEN acc ELSE Append(acc, word))
       ELSE ShellWordsFrom(Tail(str), Append(word, Head(str)), acc)

ShellWords(str) == ShellWordsFrom(str, <<>>, <<>>)

\* The argument vector a factory stands for: command, jar flag, file, every
\* computed flag, every extra argument
FactoryArgv(f) ==
  <<f.command, f.jarSpec, f.file>> \o f.args[1].items
  \o [i \in 1..(Len(f.args) - 1) |-> f.args[i + 1].str]

\* C10 (as claimed): the command line spawn() launches has every computed
\* flag and every extra argument as a separate space-delimited token, in
\* order:  java -jar server.jar nogui -Xmx1024M -Xms512M
C10_LaunchCommandLine ==
  execCmd # <<>> => ShellWords(execCmd[1].cmd) = FactoryArgv(execCmd[1].factory)

\* C11: build() on a builder whose file was never set throws
\* ServerFactoryError, whatever the other setters were given: while the file
\* is unset, and after a build() that threw, no ServerFactory exists and
\* nothing was handed to cp.exec.
C11_BuildWithoutFileThrows ==
  /\ b_file = <<>> => factory = <<>> /\ execCmd = <<>>
  /\ thrown = "ServerFactoryError" => factory = <<>> /\ execCmd = <<>>

\* build() threw on a builder that had its command, an argument, the gui flag
\* and a memory limit set, but no file.
C11_Witness ==
  /\ thrown = "ServerFactoryError"
  /\ b_file = <<>>
  /\ b_command = <<"java8">>
  /\ b_args # <<>>
  /\ b_gui
  /\ b_maxMemory # <<>>

\* C12 (as claimed): a process that could not be launched surfaces as a
\* failed result of spawn(); spawn() never returns a Server for it.
C12_LaunchFailureSurfaces ==
  execCmd # <<>> /\ execCmd[1].launch # "launched"
    => execCmd[1].result # "Server"

---------------------------------------------------------------------------
(* Pending promises of one running Server (specification SpecPromises) *)

WhenFutures == {id \in FutureIds : futures[id].kind = "when"}
LineFutures == {id \in FutureIds : futures[id].kind \in {"line", "command"}}

\* C13: no replay.  A when() promise is resolved only by a line emitted
\* after the call: a promise that is resolved, whose resolve function was
\* called, or whose listener is no longer subscribed, had a matching line
\* emitted after the call; whatever was emitted before does not count.
C13_WhenNoReplay ==
  \A id \in WhenFutures :
    ( \/ futures[id].state # "pending"
      \/ futures[id].calls # 0
      \/ ~Registered("message", id) )
    => \E i \in (futures[id].born + 1)..Len(messages) :
         Contains(messages[i], futures[id].pat)

\* C13 witness: when() was called after a line matching its pattern had been
\* emitted, another line was emitted since, and the promise is pending.
C13_Witness ==
  \E id \in WhenFutures :
    /\ \E i \in 1..futures[id].born : Contains(messages[i], futures[id].pat)
    /\ Len(messages) > futures[id].born
    /\ futures[id].state = "pending"

C15_LineResolvesWithNextMessage ==
  /\ \A id \in LineFutures :
       /\ futures[id].calls <= 1
       /\ (futures[id].state = "resolved") = (Len(messages) > futures[id].born)
       /\ futures[id].state = "resolved" =>
            futures[id].value = <<messages[futures[id].born + 1]>>
       /\ Registered("message", id) = (futures[id].state = "pending")
  /\ Cardinality({id \in FutureIds : futures[id].kind = "command"})
       <= Cardinality({i \in 1..Len(stdin) : \E t \in Texts : stdin[i] = <<t, "\n">>})

\* C15 witness: a line() promise resolved with the ready line and a command()
\* promise resolved with a chat line, after two emissions.
C15_Witness ==
  /\ Len(messages) = 2
  /\ \E a, b \in LineFutures :
       /\ futures[a].kind = "line" /\ futures[a].value = <<DoneLine>>
       /\ futures[b].kind = "command" /\ futures[b].value = <<ChatLine>>
       /\ futures[a].born = 0

---------------------------------------------------------------------------
(* Subscribed callbacks (specification SpecListeners) *)

Max(S) == CHOOSE x \in S : \A y \in S : y <= x
EachSubs == {id \in FutureIds : futures[id].kind = "each"}
OnSubs == {id \in FutureIds : futures[id].kind = "on"}

\* C16: the callback of each(pattern, callback) was invoked once for every
\* line emitted after the call that matches the pattern and for no other
\* line, the last time with the match of the last such line; the
\* subscription of each() is never removed.
C16_EachInvokedPerMatch ==
  \A id \in EachSubs :
    LET after == MatchesAfter(id)
    IN /\ futures[id].calls = Cardinality(after)
       /\ after # {} =>
            futures[id].value = StringMatch(messages[Max(after)], futures[id].pat)
       /\ after = {} => futures[id].value = <<>>
       /\ Registered("message", id)

\* C16 witness: a callback invoked twice, by the two matching lines emitted
\* since its each(), and one invoked once, subscribed between them.
C16_Witness ==
  \E a, b \in EachSubs :
    /\ futures[a].calls = 2
    /\ futures[b].calls = 1
    /\ futures[b].born = 1

\* C17 (as claimed): once off was called with the channel and the function
\* of an on() or each() subscription, the function is not invoked for any
\* later emission.
C17_OffStopsInvocations ==
  \A id \in OnSubs \cup EachSubs :
    futures[id].off # <<>> => futures[id].calls = futures[id].off[1]

---------------------------------------------------------------------------
(* getBlockData (specification SpecBlockData) *)

\* C18 (as claimed): whatever the response line, the promise of
\* getBlockData is never rejected; it resolves with null whenever no data
\* structure can be read from the line, ill-formed text between braces
\* included.
C18_NullWhenNotExtractable ==
  /\ gb_result.kind # "rejected"
  /\ gb_result.kind = "value" =>
       \E i \in 1..Len(gb_response) :
         SubSeq(gb_response, i, Len(gb_response)) = <<"{", GoodProp, "}">>

---------------------------------------------------------------------------
(* Plugins of bin/wrapcraft.js (specification SpecCli) *)

Plugins == 1..Len(cli_plugins)

\* C19 (as claimed): once main() waits for `ready`, the preinit of every
\* loaded plugin that defines one was invoked with the server instance
\* while `ready` was pending; and every entry point was invoked with the
\* instance when `ready` had resolved.
C19_PluginLifecycle ==
  /\ cli_pc \in {"awaitReady", "done"} =>
       \A i \in Plugins :
         cli_plugins[i].preinit =>
           \E k \in 1..Len(cli_preinitCalls) :
             cli_preinitCalls[k] =
               [plugin |-> i, arg |-> "server", ready |-> "pending"]
  /\ \A k \in 1..Len(cli_entryCalls) :
       /\ cli_entryCalls[k].arg = "server"
       /\ cli_entryCalls[k].ready = "resolved"

\* Invocations of the cleanup of plugin i
CleanupCalls(i) ==
  IF cli_cleanupId[i] = <<>> THEN 0 ELSE futures[cli_cleanupId[i][1]].calls

\* C20 (as claimed): the cleanup of every loaded plugin that defines one was
\* invoked exactly once if the process has stopped (`stop` was emitted),
\* and not at all if it has not.
C20_CleanupOnceAtStop ==
  \A i \in Plugins :
    cli_plugins[i].cleanup =>
      CleanupCalls(i) = IF stopEmits # <<>> THEN 1 ELSE 0

---------------------------------------------------------------------------
(* Delivery of one emission (specification SpecListeners) *)

\* promises made by a call from inside a `message` handler
NestedFutures == {id \in FutureIds : futures[id].during > 0}

\* C21: a line() promise made while emission k of `message` was being
\* delivered is not resolved by line k and its listener is not among those
\* called for it; it is resolved exactly when a later line was emitted, with
\* line k + 1.  The listeners an emission calls are called in the order they
\* were registered (ids grow with registration).
C21_SnapshotDelivery ==
  /\ \A id \in NestedFutures :
       LET k == futures[id].during
       IN /\ (futures[id].state = "resolved") = (Len(messages) > k)
          /\ futures[id].state = "resolved" =>
               futures[id].value = <<messages[k + 1]>>
          /\ Len(messages) = k =>
               \A i \in 1..Len(delivered) : delivered[i] # id
  /\ \A i, j \in 1..Len(delivered) : i < j => delivered[i] < delivered[j]

\* C21 witness: a promise made during the first emission, resolved with the
\* second line, which differs from the first; the second emission called
\* three listeners.
C21_Witness ==
  /\ Len(messages) = 2
  /\ messages[1] # messages[2]
  /\ stopEmits = <<>>
  /\ Len(delivered) >= 3
  /\ \E id \in NestedFutures :
       /\ futures[id].during = 1
       /\ futures[id].value = <<messages[2]>>

\* C24: a handler subscribed to the `ready` channel is never invoked,
\* whatever lines were emitted, whether `ready` resolved and whether the
\* process exited.
C24_ReadyChannelSilent ==
  \A id \in OnSubs :
    Registered("ready", id) => futures[id].calls = 0 /\ futures[id].value = <<>>

\* C24 witness: a handler was subscribed to `ready` before any line; since
\* then the ready line was emitted, `ready` resolved and `stop` was emitted.
C24_Witness ==
  /\ ready.state = "resolved"
  /\ stopEmits # <<>>
  /\ \E id \in OnSubs :
       /\ Registered("ready", id)
       /\ futures[id].born = 0
       /\ futures[id].bornStops = 0

---------------------------------------------------------------------------
(* command() and stop() (specification SpecPromises) *)

CommandFutures == {id \in FutureIds : futures[id].kind = "command"}

\* C22: the step in which a command() promise is made is the step that
\* writes its text to the process input, and at its end the promise's
\* listener is subscribed to `message`; the step emits no `message`.  So the
\* first line emitted after the write resolves the promise.
C22_CommandWriteAndSubscribeAtomic ==
  [][ \A id \in (DOMAIN futures') \ (DOMAIN futures) :
        futures'[id].kind = "command" =>
          /\ \E t \in Texts : stdin' = StdinWrite(stdin, t)
          /\ \E i \in 1..Len(events'["message"]) :
               events'["message"][i] = Listener(id, "once", NoPattern)
          /\ messages' = messages
          /\ futures'[id].born = Len(messages)
          /\ futures'[id].state = "pending" ]_vars

\* C22 witness: a command() made after one line, with its text on the
\* process input, resolved by the line emitted next.
C22_Witness ==
  \E id \in CommandFutures :
    /\ futures[id].born = 1
    /\ Len(messages) = 2
    /\ futures[id].value = <<messages[2]>>
    /\ \E i \in 1..Len(stdin) : \E t \in Texts : stdin[i] = <<t, "\n">>

\* C23: `stop` is emitted at most once.  A stop() promise made after that
\* emission is pending, was never resolved and stays subscribed; every
\* stop() promise made before it is resolved once, with the exit code, as
\* soon as `stop` was emitted, however many there are.
C23_LateStopNeverResolves ==
  /\ Len(stopEmits) <= 1
  /\ \A id \in StopFutures :
       IF futures[id].bornStops >= 1
       THEN /\ futures[id].state = "pending"
            /\ futures[id].calls = 0
            /\ Registered("stop", id)
       ELSE stopEmits # <<>> =>
              /\ futures[id].state = "resolved"
              /\ futures[id].calls = 1
              /\ futures[id].value = <<stopEmits[1]>>
              /\ ~Registered("stop", id)

\* C23 witness: a stop() made before the exit, resolved, and a stop() made
\* after the `stop` emission, pending.
C23_Witness ==
  \E a, b \in StopFutures :
    /\ futures[a].bornStops = 0 /\ futures[a].state = "resolved"
    /\ futures[b].bornStops = 1 /\ futures[b].state = "pending"
    /\ proc = "dead" /\ ~exitOnce


============================================================================
